---- MODULE Spec2Model ----
(***************************************************************************)
(* Model of the product-transaction service: server/src/server.js (startup *)
(* sequence) and server/src/models.js (the Transaction schema and the      *)
(* Express router: /initialize, /transactions, /statistics/:month,         *)
(* /bar-chart/:month, /pie-chart/:month, /combined/:month).                *)
(*                                                                         *)
(* Conventions.                                                            *)
(*  - A JavaScript string is a sequence of one-character strings.          *)
(*  - An optional value (a field that may be undefined) is a sequence of   *)
(*    length 0 (absent) or 1 (present).                                    *)
(*  - A Date is [valid, t]: t counts hours of local time since 1970-01-01  *)
(*    00:00; an Invalid Date has valid = FALSE.                            *)
(*  - A JavaScript number is [nan, inf, neg, mant, exp]: NaN, +/-Infinity, *)
(*    or the double mant * 2^exp, mant a natural number of any size.       *)
(*  - One reader request is followed step by step: readers share no        *)
(*    mutable state and never write the store. What another request can do *)
(*    to it, ending the process, is the action OtherRequestThrows.         *)
(*  - /initialize requests run side by side, one per element of Seeders.   *)
(***************************************************************************)
EXTENDS Integers, Sequences, FiniteSets, TLC

VARIABLES server, year, source, store, rd, sd, okInits, partial

vars == <<server, year, source, store, rd, sd, okInits, partial>>

\* ---------------------------------------------------------------- bounds

\* The store holds at most MaxStore records: /initialize is not started
\* when its insert could exceed it.
MaxStore == 4

\* ------------------------------------------------------------ JS strings

UpperAlpha == <<"A","B","C","D","E","F","G","H","I","J","K","L","M",
                "N","O","P","Q","R","S","T","U","V","W","X","Y","Z">>

LowerAlpha == <<"a","b","c","d","e","f","g","h","i","j","k","l","m",
                "n","o","p","q","r","s","t","u","v","w","x","y","z">>

Digits == <<"0","1","2","3","4","5","6","7","8","9">>

LowerChar(c) ==
    IF \E i \in 1..26 : UpperAlpha[i] = c
    THEN LowerAlpha[CHOOSE i \in 1..26 : UpperAlpha[i] = c]
    ELSE c

\* String.prototype.toLowerCase
toLowerCase(s) == [i \in 1..Len(s) |-> LowerChar(s[i])]

HexDigits == <<"0","1","2","3","4","5","6","7","8","9","a","b","c","d","e","f">>

\* The value of c as a digit in the given radix, -1 when it is none.
RadixDigit(c, radix) ==
    LET l == LowerChar(c) IN
    IF \E i \in 1..radix : HexDigits[i] = l
    THEN (CHOOSE i \in 1..radix : HexDigits[i] = l) - 1
    ELSE -1

RECURSIVE RadixValue(_, _)
RadixValue(s, radix) ==
    IF s = <<>> THEN 0
    ELSE radix * RadixValue(SubSeq(s, 1, Len(s) - 1), radix)
         + RadixDigit(s[Len(s)], radix)

\* The value of at most nine decimal digits.
DigitsValue(s) == RadixValue(s, 10)

Abs(n) == IF n < 0 THEN 0 - n ELSE n

\* The element of a one-element set: The({ F(x) : x \in {e} }) is F(e),
\* with e worked out once.
The(S) == CHOOSE x \in S : TRUE

Max(S) == CHOOSE x \in S : \A y \in S : y <= x

\* ------------------------------------------- natural numbers of any size

\* A natural number of any size is the sequence of its limbs in base Limb,
\* least significant first, without a most significant 0: 0 is <<>>,
\* 12345678 is <<5678, 1234>>.
Limb == 10000

BigTrim(a) ==
    The({ IF nz = {} THEN <<>> ELSE SubSeq(a, 1, Max(nz)) :
          nz \in {{ i \in 1..Len(a) : a[i] # 0 }} })

\* n < 2^31
BigOfNat(n) ==
    BigTrim(<<n % Limb, (n \div Limb) % Limb, n \div (Limb * Limb)>>)

LimbAt(a, i) == IF i <= Len(a) THEN a[i] ELSE 0

\* f[lo] + ... + f[hi]
RECURSIVE SumRange(_, _, _)
SumRange(f, lo, hi) ==
    IF lo > hi THEN 0
    ELSE IF lo = hi THEN f[lo]
    ELSE The({ SumRange(f, lo, mid) + SumRange(f, mid + 1, hi) :
               mid \in {(lo + hi) \div 2} })

\* -1, 0, 1 as a < b, a = b, a > b
BigCmp(a, b) ==
    The({ IF Len(x) # Len(y) THEN (IF Len(x) < Len(y) THEN -1 ELSE 1)
          ELSE The({ IF diff = {} THEN 0
                     ELSE IF x[Max(diff)] < y[Max(diff)] THEN -1 ELSE 1 :
                     diff \in {{ i \in 1..Len(x) : x[i] # y[i] }} }) :
          x \in {a}, y \in {b} })

\* The carry into limb i of a sum whose limb sums are s: some limb below
\* overflows and every limb between is full.
CarryInto(s, i) ==
    IF \E j \in 1..(i - 1) :
          s[j] >= Limb /\ \A k \in (j + 1)..(i - 1) : s[k] = Limb - 1
    THEN 1 ELSE 0

\* s holds the limb sums, n the length of the longer number.
BigAdd(a, b) ==
    The({ The({ The({ BigTrim([i \in 1..(n + 1) |->
                                 (LimbAt(s, i) + CarryInto(s, i)) % Limb]) :
                      s \in {SubSeq([i \in 1..n |-> LimbAt(x, i) + LimbAt(y, i)],
                                    1, n)} }) :
                n \in {Max({Len(x), Len(y)})} }) :
          x \in {a}, y \in {b} })

\* The borrow from limb i of a difference whose limb differences are t.
BorrowFrom(t, i) ==
    IF \E j \in 1..(i - 1) :
          t[j] < 0 /\ \A k \in (j + 1)..(i - 1) : t[k] = 0
    THEN 1 ELSE 0

\* a - b, for a >= b; t holds the limb differences.
BigSub(a, b) ==
    The({ The({ BigTrim([i \in 1..Len(x) |->
                           (t[i] - BorrowFrom(t, i) + Limb) % Limb]) :
                t \in {SubSeq([i \in 1..Len(x) |-> x[i] - LimbAt(y, i)],
                              1, Len(x))} }) :
          x \in {a}, y \in {b} })

\* Limbs whose values may reach Limb^2, as a natural number.
Carried(c, n) ==
    BigAdd(SubSeq([i \in 1..n |-> c[i] % Limb], 1, n),
           <<0>> \o SubSeq([i \in 1..n |-> c[i] \div Limb], 1, n))

\* a * k, for 0 <= k < Limb
BigMulSmall(a, k) ==
    IF k = 0 THEN <<>>
    ELSE The({ The({ Carried(p, Len(x)) :
                     p \in {SubSeq([i \in 1..Len(x) |-> x[i] * k], 1, Len(x))} }) :
               x \in {a} })

\* Column k of the product, as the sum of the low (or of the high) parts
\* of the limb products a[i] * b[k + 1 - i].
Column(a, b, k, low) ==
    SumRange([i \in 1..Len(a) |->
                 IF k + 1 - i \in 1..Len(b)
                 THEN (IF low THEN (a[i] * b[k + 1 - i]) % Limb
                       ELSE (a[i] * b[k + 1 - i]) \div Limb)
                 ELSE 0],
             1, Len(a))

BigMul(a, b) ==
    The({ IF x = <<>> \/ y = <<>> THEN <<>>
          ELSE The({ Carried(c, Len(x) + Len(y)) :
                     c \in {SubSeq([k \in 1..(Len(x) + Len(y)) |->
                                      Column(x, y, k, TRUE) + Column(x, y, k - 1, FALSE)],
                                   1, Len(x) + Len(y))} }) :
          x \in {a}, y \in {b} })

RECURSIVE BigPow2(_)
BigPow2(n) ==
    IF n < 13 THEN <<2 ^ n>>
    ELSE The({ IF n % 2 = 0 THEN BigMul(h, h) ELSE BigMulSmall(BigMul(h, h), 2) :
               h \in {BigPow2(n \div 2)} })

\* a * 10^k
BigMulPow10(a, k) ==
    The({ IF x = <<>> THEN <<>>
          ELSE [i \in 1..(k \div 4) |-> 0] \o BigMulSmall(x, 10 ^ (k % 4)) :
          x \in {a} })

\* a \div k for k = 2 and k = 16: Limb is a multiple of both.
DivLimbs(a, k) ==
    The({ BigTrim([i \in 1..Len(x) |->
                     (x[i] + (LimbAt(x, i + 1) % k) * Limb) \div k]) :
          x \in {a} })

\* The largest k in lo..hi with 2^k <= a.
RECURSIVE Log2Between(_, _, _)
Log2Between(a, lo, hi) ==
    IF lo >= hi THEN lo
    ELSE The({ IF BigCmp(BigPow2(mid), a) <= 0
               THEN Log2Between(a, mid, hi) ELSE Log2Between(a, lo, mid - 1) :
               mid \in {(lo + hi + 1) \div 2} })

\* The largest k with 2^k <= a, for a > 0: 2^13 < Limb < 2^14.
FloorLog2(a) == The({ Log2Between(x, 13 * (Len(x) - 1), 14 * Len(x) - 1) : x \in {a} })

\* The value of a sequence of decimal digits of any length.
BigOfDigits(ds) ==
    The({ BigTrim([j \in 1..((Len(s) + 3) \div 4) |->
                     DigitsValue(SubSeq(s, Max({1, Len(s) - 4 * j + 1}),
                                        Len(s) - 4 * (j - 1)))]) :
          s \in {ds} })

\* The value of a sequence of digits in the given radix.
RECURSIVE BigOfRadix(_, _)
BigOfRadix(s, radix) ==
    IF s = <<>> THEN <<>>
    ELSE The({ BigAdd(BigMulSmall(BigOfRadix(front, radix), radix),
                      BigOfNat(RadixDigit(s[Len(s)], radix))) :
               front \in {SubSeq(s, 1, Len(s) - 1)} })

\* The digits of the quotient in base 16, from digit i down; ds[i] is
\* d * 16^(i-1).
RECURSIVE DivFrom(_, _, _, _)
DivFrom(r, ds, i, q) ==
    IF i = 0 THEN [q |-> q, r |-> r]
    ELSE The({ The({ DivFrom(r2, ds, j, q2) :
                     r2 \in {BigSub(r, BigMulSmall(ds[i], g))},
                     q2 \in {BigAdd(BigMulSmall(q, 16), BigOfNat(g))},
                     j \in {i - 1} }) :
               g \in {Max({ h \in 0..15 : BigCmp(BigMulSmall(ds[i], h), r) <= 0 })} })

\* Quotient and remainder of n by d, for n < d * 2^56.
BigDivMod(n, d) ==
    The({ The({ [q |-> dm.q, r |-> dm.r] : dm \in {DivFrom(x, ds, 14, <<>>)} }) :
          x \in {n},
          ds \in {SubSeq([i \in 1..14 |-> BigMul(d, BigPow2(4 * (i - 1)))], 1, 14)} })

\* ----------------------------------------------------- JavaScript numbers

\* A JavaScript number (an IEEE 754 double): NaN, +/-Infinity, or the
\* finite value mant * 2^exp, mant a natural number of any size that is odd
\* (or 0, with exp = 0) and below 2^53; neg is the sign, which zero has too.
\* 90 is [mant |-> <<45>>, exp |-> 1], 1.5 is [mant |-> <<3>>, exp |-> -1].
NaN == [nan |-> TRUE, inf |-> FALSE, neg |-> FALSE, mant |-> <<>>, exp |-> 0]

Infinity(neg) ==
    [nan |-> FALSE, inf |-> TRUE, neg |-> neg, mant |-> <<>>, exp |-> 0]

Finite(neg, mant, exp) ==
    [nan |-> FALSE, inf |-> FALSE, neg |-> neg, mant |-> mant, exp |-> exp]

IsFinite(x) == ~x.nan /\ ~x.inf

IsZero(x) == IsFinite(x) /\ x.mant = <<>>

IsInteger(x) == IsFinite(x) /\ x.exp >= 0

\* x < 0
IsNegative(x) == ~x.nan /\ x.neg /\ ~IsZero(x)

Two53 == BigPow2(53)

\* Exponent of the least significant bit of the smallest and of the largest
\* doubles: 2^-1074 is the smallest, (2^53 - 1) * 2^971 the largest.
MinExponent == 0 - 1074

MaxExponent == 971

\* The number q * 2^e with the trailing zero bits of q moved to e, q > 0.
RECURSIVE Normal(_, _, _)
Normal(neg, q, e) ==
    IF q[1] % 16 = 0
    THEN The({ Normal(neg, q2, e2) : q2 \in {DivLimbs(q, 16)}, e2 \in {e + 4} })
    ELSE IF q[1] % 2 = 0
    THEN The({ Normal(neg, q2, e2) : q2 \in {DivLimbs(q, 2)}, e2 \in {e + 1} })
    ELSE Finite(neg, q, e)

\* The number q * 2^e, for q <= 2^53 and q >= 2^52 unless e = MinExponent;
\* 2^1024 and more is Infinity.
Pack(neg, q, e) ==
    IF q = <<>> THEN Finite(neg, <<>>, 0)
    ELSE IF e > MaxExponent \/ (e = MaxExponent /\ q = Two53) THEN Infinity(neg)
    ELSE Normal(neg, q, e)

\* q + r / d rounded to an integer, a tie to the even one.
RoundHalfEven(q, r, d) ==
    The({ IF c > 0 \/ (c = 0 /\ q # <<>> /\ q[1] % 2 = 1) THEN BigAdd(q, <<1>>) ELSE q :
          c \in {BigCmp(BigMulSmall(r, 2), d)} })

\* n / (d * 2^s) as a fraction of natural numbers.
ScaledN(n, s) == IF s < 0 THEN BigMul(n, BigPow2(0 - s)) ELSE n

ScaledD(d, s) == IF s > 0 THEN BigMul(d, BigPow2(s)) ELSE d

\* The s with 2^52 <= n / (d * 2^s) < 2^53.
ShiftFor(n, d) ==
    The({ IF BigCmp(ScaledN(n, s0), BigMul(ScaledD(d, s0), BigPow2(52))) < 0
          THEN s0 - 1 ELSE s0 :
          s0 \in {FloorLog2(n) - FloorLog2(d) - 52} })

\* The double nearest to (n / d) * 2^e0, a tie to the one with an even
\* significand, for n > 0 and d > 0: the quotient of n by d * 2^s rounded,
\* times 2^(s + e0), s not below what the smallest double allows.
Rounded(neg, n, d, e0) ==
    The({ The({ The({ Pack(neg, RoundHalfEven(dm.q, dm.r, ds), s + e0) :
                      dm \in {BigDivMod(ScaledN(n, s), ds)} }) :
                ds \in {ScaledD(d, s)} }) :
          s \in {Max({ShiftFor(n, d), MinExponent - e0})} })

\* The double nearest to (n / d) * 2^e0, for d > 0. A natural number below
\* 2^53 times a power of two in range is a double.
RoundValue(neg, n, d, e0) ==
    The({ IF x = <<>> THEN Finite(neg, <<>>, 0)
          ELSE IF /\ y = <<1>> /\ e0 >= MinExponent /\ e0 <= MaxExponent
                  /\ BigCmp(x, Two53) < 0
          THEN Normal(neg, x, e0)
          ELSE Rounded(neg, x, y, e0) :
          x \in {n}, y \in {d} })

\* The number of an integer n of the model.
Num(n) == RoundValue(n < 0, BigOfNat(Abs(n)), <<1>>, 0)

\* The value of an integer x; a magnitude of Limb^2 and above stands as
\* Limb^2, which is more than any count or price of the model.
IntegerValue(x) ==
    The({ IF x.neg THEN 0 - n ELSE n :
          n \in { IF x.exp > 27 THEN Limb * Limb
                  ELSE The({ IF Len(v) > 2 THEN Limb * Limb
                             ELSE LimbAt(v, 1) + LimbAt(v, 2) * Limb :
                             v \in {BigMul(x.mant, BigPow2(x.exp))} }) } })

\* x - 1 for a finite x. An x of 2^60 and more stays x, and one below
\* 2^-60 gives -1; else x is mant * 2^exp with exp >= 0, an integer, or
\* mant / 2^k with k = -exp, and x - 1 is (mant - 2^k) / 2^k.
FiniteMinusOne(x) ==
    IF x.mant = <<>> \/ x.exp < 0 - 112 THEN RoundValue(TRUE, <<1>>, <<1>>, 0)
    ELSE IF x.exp > 60 THEN x
    ELSE IF x.exp >= 0
    THEN The({ IF x.neg THEN RoundValue(TRUE, BigAdd(n, <<1>>), <<1>>, 0)
               ELSE RoundValue(FALSE, BigSub(n, <<1>>), <<1>>, 0) :
               n \in {BigMul(x.mant, BigPow2(x.exp))} })
    ELSE The({ IF x.neg THEN RoundValue(TRUE, BigAdd(x.mant, one), <<1>>, x.exp)
               ELSE IF BigCmp(x.mant, one) >= 0
               THEN RoundValue(FALSE, BigSub(x.mant, one), <<1>>, x.exp)
               ELSE RoundValue(TRUE, BigSub(one, x.mant), <<1>>, x.exp) :
               one \in {BigPow2(0 - x.exp)} })

\* x - 1
MinusOne(x) ==
    The({ IF v.nan \/ v.inf THEN v ELSE FiniteMinusOne(v) : v \in {x} })

Product(x, y) ==
    IF x.nan \/ y.nan THEN NaN
    ELSE IF x.inf \/ y.inf
    THEN (IF IsZero(x) \/ IsZero(y) THEN NaN ELSE Infinity(x.neg # y.neg))
    ELSE RoundValue(x.neg # y.neg, BigMul(x.mant, y.mant), <<1>>, x.exp + y.exp)

\* x * y
Times(x, y) == The({ Product(v, w) : v \in {x}, w \in {y} })

\* StrWhiteSpaceChar: the white space and line terminators dropped around
\* a number. A character is a one-character string; a code point a string
\* of the model cannot hold is written by its name, "U+00A0".
WhiteSpace ==
    {" ", "\t", "\n", "\r", "\f", "U+000B", "U+00A0", "U+FEFF", "U+2028",
     "U+2029", "U+1680", "U+2000", "U+2001", "U+2002", "U+2003", "U+2004",
     "U+2005", "U+2006", "U+2007", "U+2008", "U+2009", "U+200A", "U+202F",
     "U+205F", "U+3000"}

RECURSIVE TrimStart(_)
TrimStart(s) ==
    IF s # <<>> /\ s[1] \in WhiteSpace
    THEN The({ TrimStart(t) : t \in {Tail(s)} }) ELSE s

RECURSIVE TrimEnd(_)
TrimEnd(s) ==
    IF s # <<>> /\ s[Len(s)] \in WhiteSpace
    THEN The({ TrimEnd(t) : t \in {SubSeq(s, 1, Len(s) - 1)} }) ELSE s

\* Length of the longest prefix of s made of digits.
DigitPrefixLen(s) ==
    The({ IF no = {} THEN Len(s)
          ELSE (CHOOSE i \in no : \A j \in no : i <= j) - 1 :
          no \in {{ i \in 1..Len(s) : ~\E d \in 1..10 : Digits[d] = s[i] }} })

Drop(s, n) == SubSeq(s, n + 1, Len(s))

InfinityText == <<"I","n","f","i","n","i","t","y">>

\* The number digits * 10^shift of a decimal literal: the nearest double.
\* From 10^310 on it is Infinity, below 10^-330 it is 0.
Decimal(digits, shift) ==
    The({ IF m = <<>> THEN Finite(FALSE, <<>>, 0)
          ELSE IF shift >= 310 THEN Infinity(FALSE)
          ELSE IF shift + 4 * Len(m) < 0 - 330 THEN Finite(FALSE, <<>>, 0)
          ELSE IF shift >= 0 THEN RoundValue(FALSE, BigMulPow10(m, shift), <<1>>, 0)
          ELSE RoundValue(FALSE, m, BigMulPow10(<<1>>, 0 - shift), 0) :
          m \in {BigOfDigits(digits)} })

RECURSIVE DropZeros(_)
DropZeros(s) ==
    IF s # <<>> /\ s[1] = "0" THEN The({ DropZeros(t) : t \in {Tail(s)} }) ELSE s

\* The value of an exponent's digits; 1000000 stands for that and more.
ExponentValue(s) ==
    The({ IF Len(t) > 6 THEN 1000000 ELSE DigitsValue(t) : t \in {DropZeros(s)} })

\* The digits of an exponent, n of them, after from characters ("e", "e-").
ExponentDigits(digits, n, from, negative) ==
    IF n = 0 THEN [len |-> 0, exp |-> 0]
    ELSE [len |-> from + n,
          exp |-> IF negative THEN 0 - ExponentValue(SubSeq(digits, 1, n))
                  ELSE ExponentValue(SubSeq(digits, 1, n))]

\* The exponent part rest starts with: "e" or "E", an optional sign and at
\* least one digit; [len, exp], len = 0 when rest starts with none.
ExponentPart(rest) ==
    IF rest # <<>> /\ rest[1] \in {"e", "E"}
    THEN IF Len(rest) >= 2 /\ rest[2] \in {"+", "-"}
         THEN The({ ExponentDigits(d, DigitPrefixLen(d), 2, rest[2] = "-") :
                    d \in {Drop(rest, 2)} })
         ELSE The({ ExponentDigits(d, DigitPrefixLen(d), 1, FALSE) :
                    d \in {Drop(rest, 1)} })
    ELSE [len |-> 0, exp |-> 0]

\* s starts with intLen digits and, when hasDot, a "." and fracLen digits.
ScanMantissa(s, intLen, hasDot, fracLen) ==
    IF intLen + fracLen = 0 THEN [len |-> 0, value |-> NaN]
    ELSE The({ [len |-> mantLen + e.len,
                value |-> Decimal(SubSeq(s, 1, intLen)
                                      \o SubSeq(s, intLen + 2, intLen + 1 + fracLen),
                                  e.exp - fracLen)] :
               mantLen \in {intLen + (IF hasDot THEN 1 + fracLen ELSE 0)},
               e \in {ExponentPart(Drop(s, intLen + (IF hasDot THEN 1 + fracLen ELSE 0)))} })

\* The longest prefix of s that is a StrUnsignedDecimalLiteral (digits, an
\* optional fraction, an optional complete exponent; or "Infinity"):
\* [len, value], len = 0 when s starts with none.
ScanDecimal(s) ==
    IF Len(s) >= Len(InfinityText) /\ SubSeq(s, 1, Len(InfinityText)) = InfinityText
    THEN [len |-> Len(InfinityText), value |-> Infinity(FALSE)]
    ELSE The({ IF Len(s) > intLen /\ s[intLen + 1] = "."
               THEN The({ ScanMantissa(s, intLen, TRUE, fracLen) :
                          fracLen \in {DigitPrefixLen(Drop(s, intLen + 1))} })
               ELSE ScanMantissa(s, intLen, FALSE, 0) :
               intLen \in {DigitPrefixLen(s)} })

Signed(sign, r) ==
    IF r.len = 0 THEN r
    ELSE [len |-> r.len + 1,
          value |-> IF sign = "-" /\ ~r.value.nan
                    THEN [r.value EXCEPT !.neg = ~r.value.neg] ELSE r.value]

\* An optional sign, then ScanDecimal.
ScanSigned(s) ==
    IF s # <<>> /\ s[1] \in {"+", "-"}
    THEN The({ Signed(s[1], r) : r \in {ScanDecimal(Tail(s))} })
    ELSE ScanDecimal(s)

\* Digits of a 0x / 0o / 0b literal.
RadixLiteral(body, radix) ==
    IF body # <<>> /\ \A i \in 1..Len(body) : RadixDigit(body[i], radix) >= 0
    THEN RoundValue(FALSE, BigOfRadix(body, radix), <<1>>, 0)
    ELSE NaN

\* ToNumber of a text without white space around it: the empty string is 0;
\* then a 0x / 0o / 0b literal, or a signed decimal literal or Infinity that
\* is the whole text; anything else is NaN.
StringNumericLiteral(t) ==
    IF t = <<>> THEN Num(0)
    ELSE IF Len(t) >= 2 /\ t[1] = "0" /\ t[2] \in {"x", "X"}
    THEN RadixLiteral(Drop(t, 2), 16)
    ELSE IF Len(t) >= 2 /\ t[1] = "0" /\ t[2] \in {"o", "O"}
    THEN RadixLiteral(Drop(t, 2), 8)
    ELSE IF Len(t) >= 2 /\ t[1] = "0" /\ t[2] \in {"b", "B"}
    THEN RadixLiteral(Drop(t, 2), 2)
    ELSE The({ IF r.len = Len(t) THEN r.value ELSE NaN : r \in {ScanSigned(t)} })

\* ToNumber of a string (as applied by "page - 1" and "* perPage"): white
\* space around is dropped.
ToNumber(s) == The({ StringNumericLiteral(t) : t \in {TrimEnd(TrimStart(s))} })

\* parseFloat: leading white space is dropped; the value of the longest
\* prefix that is a signed decimal literal or Infinity, NaN when none is.
parseFloat(s) ==
    The({ IF r.len = 0 THEN NaN ELSE r.value : r \in {ScanSigned(TrimStart(s))} })

\* ----------------------------------------------------------------- dates

IsLeap(y) == (y % 4 = 0 /\ y % 100 # 0) \/ y % 400 = 0

DaysInMonth(y, m) ==
    IF m = 1 THEN (IF IsLeap(y) THEN 29 ELSE 28)
    ELSE IF m \in {3, 5, 8, 10} THEN 30 ELSE 31

RECURSIVE DaysBeforeMonth(_, _)
DaysBeforeMonth(y, m) ==
    IF m = 0 THEN 0 ELSE DaysBeforeMonth(y, m - 1) + DaysInMonth(y, m - 1)

LeapsThrough(y) == (y \div 4) - (y \div 100) + (y \div 400)

DaysBeforeYear(y) == 365 * (y - 1970) + LeapsThrough(y - 1) - LeapsThrough(1969)

InvalidDate == [valid |-> FALSE, t |-> 0]

\* new Date(year, monthIndex, day) with numeric arguments: local midnight;
\* a month index outside 0..11 and a day outside the month carry over.
MakeDate(y, monthIndex, day) ==
    LET ym == y * 12 + monthIndex
        yy == ym \div 12
        mm == ym % 12
    IN  [valid |-> TRUE,
         t |-> (DaysBeforeYear(yy) + DaysBeforeMonth(yy, mm) + day - 1) * 24]

\* new Date(item.dateOfSale). The item's text is a date-time without offset
\* ("2025-03-05T10:00:00", read as local time), held as an optional
\* [y, mo, d, h]; <<>> is a missing key (undefined). The parser takes a
\* month 1..12, a day 1..31 whatever the month, and an hour 0..24 (24:00 is
\* the next midnight); a day beyond the month's end carries into the next
\* month. Anything else, and undefined, gives an Invalid Date.
ParseDate(ds) ==
    IF ds = <<>> THEN InvalidDate
    ELSE LET x == ds[1] IN
         IF x.mo \in 1..12 /\ x.d \in 1..31 /\ x.h \in 0..24
         THEN [valid |-> TRUE, t |-> MakeDate(x.y, x.mo - 1, x.d).t + x.h]
         ELSE InvalidDate

\* -------------------------------------------------------------- monthMap

MonthNames == <<
    <<"j","a","n","u","a","r","y">>,
    <<"f","e","b","r","u","a","r","y">>,
    <<"m","a","r","c","h">>,
    <<"a","p","r","i","l">>,
    <<"m","a","y">>,
    <<"j","u","n","e">>,
    <<"j","u","l","y">>,
    <<"a","u","g","u","s","t">>,
    <<"s","e","p","t","e","m","b","e","r">>,
    <<"o","c","t","o","b","e","r">>,
    <<"n","o","v","e","m","b","e","r">>,
    <<"d","e","c","e","m","b","e","r">> >>

\* Properties every plain object inherits from Object.prototype.
ObjectPrototypeKeys == {
    <<"c","o","n","s","t","r","u","c","t","o","r">>,
    <<"_","_","p","r","o","t","o","_","_">>,
    <<"t","o","S","t","r","i","n","g">>,
    <<"v","a","l","u","e","O","f">>,
    <<"h","a","s","O","w","n","P","r","o","p","e","r","t","y">> }

\* monthMap[key]: an own property gives its index, an inherited property an
\* object (a function), anything else undefined.
monthMap(key) ==
    IF \E i \in 1..12 : MonthNames[i] = key
    THEN [kind |-> "number", n |-> (CHOOSE i \in 1..12 : MonthNames[i] = key) - 1]
    ELSE IF key \in ObjectPrototypeKeys
         THEN [kind |-> "object", n |-> 0]
         ELSE [kind |-> "undefined", n |-> 0]

\* JavaScript truthiness of a monthMap lookup.
Truthy(x) == (x.kind = "number" /\ x.n # 0) \/ x.kind = "object"

\* The guard "if (!monthMap[month]) return res.status(400)..." of the
\* month-scoped routes: TRUE when the request is rejected.
MonthRejected(month) == ~Truthy(monthMap(month))

\* getStartEndDate(month); y is new Date().getFullYear(), the clock's year,
\* which stays the same over the behaviours modelled here.
getStartEndDate(month, y) ==
    LET monthIndex == monthMap(month) IN
    IF monthIndex.kind = "number"
    THEN [startDate |-> MakeDate(y, monthIndex.n, 1),
          endDate   |-> MakeDate(y, monthIndex.n + 1, 0)]
    ELSE [startDate |-> InvalidDate, endDate |-> InvalidDate]

\* ------------------------------------------- the external seed resource

\* Objects of the fetched JSON array. A key the object lacks is <<>>.
RawItem(title, description, price, dateOfSale, category) ==
    [title |-> title, description |-> description, price |-> price,
     dateOfSale |-> dateOfSale, category |-> category]

When(y, mo, d, h) == <<[y |-> y, mo |-> mo, d |-> d, h |-> h]>>

ItemA ==
    RawItem(<< <<"P","1","5","0">> >>, << <<"b","l","u","e">> >>, <<100>>,
            When(2025, 2, 5, 10), << <<"x">> >>)

ItemB ==
    RawItem(<< <<"C","u","p">> >>, <<>>, <<101>>, When(2025, 2, 27, 24), << <<"y">> >>)

ItemC == RawItem(<<>>, <<>>, <<>>, When(2024, 2, 30, 0), <<>>)

ItemD ==
    RawItem(<< <<"P","e","n">> >>, << <<"r","e","d">> >>, <<950>>,
            When(2024, 2, 29, 12), << <<"x">> >>)

ItemE ==
    RawItem(<< <<"I","n","k">> >>, <<>>, <<150>>, When(2024, 2, 29, 0), << <<"y">> >>)

ItemF ==
    RawItem(<< <<"J","a","r">> >>, <<>>, <<50>>, When(2025, 13, 1, 0), << <<"x">> >>)

\* The clock's year and the array the external resource serves.
Scenarios == {
    [year |-> 2025, source |-> <<ItemA, ItemB>>],
    [year |-> 2025, source |-> <<ItemC, ItemA>>],
    [year |-> 2024, source |-> <<ItemE, ItemD>>],
    [year |-> 2025, source |-> <<ItemA, ItemF>>] }

\* --------------------------------------------------- Transaction (store)

\* The mapping of one fetched item in /initialize.
MapItem(item) ==
    [title |-> item.title, description |-> item.description,
     price |-> item.price, dateOfSale |-> ParseDate(item.dateOfSale),
     category |-> item.category]

\* transactionSchema: the document as stored (dateOfSale as its time value).
transactionSchema(doc) ==
    [title |-> doc.title, description |-> doc.description,
     price |-> doc.price, dateOfSale |-> doc.dateOfSale.t,
     category |-> doc.category]

\* Schema validation of insertMany: an Invalid Date cannot be cast to the
\* Date path, and then no document of the batch is written.
ValidationFails(docs) == \E i \in 1..Len(docs) : ~docs[i].dateOfSale.valid

\* The range with $lt in place of $lte.
MatchRangeOpenEnd(rec, range) ==
    range.startDate.t <= rec.dateOfSale /\ rec.dateOfSale < range.endDate.t

\* { dateOfSale: { $gte: startDate, $lte: endDate } }
MatchRange(rec, range) ==
    range.startDate.t <= rec.dateOfSale /\ rec.dateOfSale <= range.endDate.t

\* { dateOfSale: { $lt: startDate } }
MatchBefore(rec, range) == rec.dateOfSale < range.startDate.t

\* Query casting of find/countDocuments: an Invalid Date operand is a
\* CastError and the query is never sent (aggregate pipelines are not cast).
RangeCastFails(range) == ~range.startDate.valid \/ ~range.endDate.valid

BeforeCastFails(range) == ~range.startDate.valid

InRangeDocs(s, range) == SelectSeq(s, LAMBDA rec : MatchRange(rec, range))

\* Transaction.countDocuments({ dateOfSale: { $gte, $lte } })
CountSold(s, range) == Len(InRangeDocs(s, range))

\* Transaction.countDocuments({ dateOfSale: { $lt: startDate } })
CountBefore(s, range) == Len(SelectSeq(s, LAMBDA rec : MatchBefore(rec, range)))

\* $sum of "$price": documents without a numeric price add nothing.
RECURSIVE SumPrice(_)
SumPrice(docs) ==
    IF docs = <<>> THEN 0
    ELSE (IF Head(docs).price = <<>> THEN 0 ELSE Head(docs).price[1])
         + SumPrice(Tail(docs))

\* The total with the $match stage left out.
AggregateTotalUnmatched(s, range) ==
    IF s = <<>> THEN <<>> ELSE <<[total |-> SumPrice(s)]>>

\* aggregate([{ $match: range }, { $group: { _id: null, total: { $sum } } }]):
\* one group document when a document matches, none otherwise.
AggregateTotal(s, range) ==
    LET docs == InRangeDocs(s, range) IN
    IF docs = <<>> THEN <<>> ELSE <<[total |-> SumPrice(docs)]>>

\* totalSales[0]?.total || 0
TotalOrZero(totalSales) ==
    IF totalSales = <<>> THEN 0
    ELSE IF totalSales[1].total = 0 THEN 0 ELSE totalSales[1].total

\* aggregate([{ $match: range }, { $group: { _id: '$category', count } }]):
\* the groups, in no guaranteed order.
AggregateCategories(s, range) ==
    LET docs == InRangeDocs(s, range) IN
    { [id |-> c, count |-> Len(SelectSeq(docs, LAMBDA rec : rec.category = c))] :
        c \in { docs[i].category : i \in 1..Len(docs) } }

\* Transaction.find({ dateOfSale: { $gte, $lte } })
FindInRange(s, range) == InRangeDocs(s, range)

\* ------------------------------------------------------------ bar chart

\* The range labels of priceRanges, in their fixed order.
RangeLabels == <<"0-100", "101-200", "201-300", "301-400", "401-500",
                 "501-600", "601-700", "701-800", "801-900", "901-above">>

\* "price <= bound" on a price that may be undefined: undefined compares
\* false with every number.
PriceLE(price, bound) == price # <<>> /\ price[1] <= bound

\* The chain with "<" in place of "<=".
BarChartBucketExclusive(price) ==
    IF price # <<>> /\ price[1] < 100 THEN 1
    ELSE IF price # <<>> /\ price[1] < 200 THEN 2
    ELSE IF price # <<>> /\ price[1] < 300 THEN 3
    ELSE IF price # <<>> /\ price[1] < 400 THEN 4
    ELSE IF price # <<>> /\ price[1] < 500 THEN 5
    ELSE IF price # <<>> /\ price[1] < 600 THEN 6
    ELSE IF price # <<>> /\ price[1] < 700 THEN 7
    ELSE IF price # <<>> /\ price[1] < 800 THEN 8
    ELSE IF price # <<>> /\ price[1] < 900 THEN 9
    ELSE 10

\* The if / else-if chain of the /bar-chart/:month route: the index of the
\* priceRanges entry a price increments.
BarChartBucket(price) ==
    IF PriceLE(price, 100) THEN 1
    ELSE IF PriceLE(price, 200) THEN 2
    ELSE IF PriceLE(price, 300) THEN 3
    ELSE IF PriceLE(price, 400) THEN 4
    ELSE IF PriceLE(price, 500) THEN 5
    ELSE IF PriceLE(price, 600) THEN 6
    ELSE IF PriceLE(price, 700) THEN 7
    ELSE IF PriceLE(price, 800) THEN 8
    ELSE IF PriceLE(price, 900) THEN 9
    ELSE 10

\* priceRanges after the forEach of the /bar-chart/:month route.
RECURSIVE BarChartTally(_, _)
BarChartTally(transactions, priceRanges) ==
    IF transactions = <<>> THEN priceRanges
    ELSE LET b == BarChartBucket(Head(transactions).price) IN
         BarChartTally(Tail(transactions),
            [priceRanges EXCEPT ![b].count = priceRanges[b].count + 1])

\* priceRanges as declared: every count 0.
EmptyPriceRanges == [i \in 1..10 |-> [range |-> RangeLabels[i], count |-> 0]]

\* The same chain in the helper getBarChart of the combined route.
GetBarChartBucket(price) ==
    IF PriceLE(price, 100) THEN 1
    ELSE IF PriceLE(price, 200) THEN 2
    ELSE IF PriceLE(price, 300) THEN 3
    ELSE IF PriceLE(price, 400) THEN 4
    ELSE IF PriceLE(price, 500) THEN 5
    ELSE IF PriceLE(price, 600) THEN 6
    ELSE IF PriceLE(price, 700) THEN 7
    ELSE IF PriceLE(price, 800) THEN 8
    ELSE IF PriceLE(price, 900) THEN 9
    ELSE 10

RECURSIVE GetBarChartTally(_, _)
GetBarChartTally(transactions, priceRanges) ==
    IF transactions = <<>> THEN priceRanges
    ELSE LET b == GetBarChartBucket(Head(transactions).price) IN
         GetBarChartTally(Tail(transactions),
            [priceRanges EXCEPT ![b].count = priceRanges[b].count + 1])

\* --------------------------------------------------------- /transactions

\* new RegExp(search, 'i') throws a SyntaxError on an unterminated group.
\* Patterns here are letters, digits and "(": any "(" is unterminated.
RegExpThrows(search) == \E i \in 1..Len(search) : search[i] = "("

\* haystack contains needle as a contiguous run.
Contains(haystack, needle) ==
    \E i \in 0..(Len(haystack) - Len(needle)) :
        SubSeq(haystack, i + 1, i + Len(needle)) = needle

\* { field: new RegExp(search, 'i') } on a field that may be missing.
RegExpMatches(field, search) ==
    field # <<>> /\ Contains(toLowerCase(field[1]), toLowerCase(search))

\* The query object built from search:
\*   { $or: [ { title: new RegExp(search, 'i') },
\*            { description: new RegExp(search, 'i') },
\*            { price: search ? parseFloat(search) : { $exists: true } } ] }
\* price is <<>> for { $exists: true }, else the number parsed.
BuildQuery(search) ==
    [search |-> search,
     price |-> IF search # <<>> THEN <<parseFloat(search)>> ELSE <<>>]

\* The price branch of the query.
PriceMatches(price, query) ==
    IF query.price # <<>>
    THEN IsInteger(query.price[1]) /\ price = <<IntegerValue(query.price[1])>>
    ELSE price # <<>>

\* The $or query of the /transactions route.
QueryMatches(rec, query) ==
    \/ RegExpMatches(rec.title, query.search)
    \/ RegExpMatches(rec.description, query.search)
    \/ PriceMatches(rec.price, query)

\* Query casting: NaN cannot be cast to the Number path price.
QueryCastFails(query) == query.price # <<>> /\ query.price[1].nan

\* const { page = 1, perPage = 10 } = req.query: a present value is the
\* query string's text.
PageOf(page) == IF page = <<>> THEN Num(1) ELSE ToNumber(page[1])

PerPageOf(perPage) == IF perPage = <<>> THEN Num(10) ELSE ToNumber(perPage[1])

\* (page - 1) * perPage
SkipOf(page, perPage) == Times(MinusOne(PageOf(page)), PerPageOf(perPage))

\* skip() and limit() take whole numbers; a negative skip is refused.
PagingFails(skip, limit) ==
    \/ ~IsInteger(skip)
    \/ IsNegative(skip)
    \/ ~IsInteger(limit)

\* Transaction.find(query).skip(skip).limit(limit); a limit of 0 is no
\* limit, a negative limit counts as its absolute value.
FindPage(s, query, skip, limit) ==
    LET all == SelectSeq(s, LAMBDA rec : QueryMatches(rec, query))
        last == IF limit = 0 \/ skip + Abs(limit) > Len(all) THEN Len(all)
                ELSE skip + Abs(limit)
    IN  SubSeq(all, skip + 1, last)

\* Transaction.countDocuments(query)
CountMatches(s, query) == Len(SelectSeq(s, LAMBDA rec : QueryMatches(rec, query)))

\* ------------------------------------------------------- request inputs

\* Values of the :month path parameter.
MonthParams == {
    <<"j","a","n","u","a","r","y">>,
    <<"F","E","B","R","U","A","R","Y">>,
    <<"c","o","n","s","t","r","u","c","t","o","r">>,
    <<"m","a","r">> }

\* Values of the search, page and perPage query parameters of one request
\* (<<>>: not given).
TransactionQueries == {
    [search |-> <<>>, page |-> <<>>, perPage |-> <<>>],
    [search |-> << <<"1","5","0">> >>, page |-> <<>>, perPage |-> <<>>],
    [search |-> << <<"p","e","n">> >>, page |-> <<>>, perPage |-> <<>>],
    [search |-> << <<"(">> >>, page |-> <<>>, perPage |-> <<>>],
    [search |-> <<>>, page |-> << <<"2">> >>, perPage |-> << <<"\f","1">> >>],
    [search |-> <<>>, page |-> << <<"0">> >>, perPage |-> <<>>],
    [search |-> <<>>, page |-> << <<"1",".","1">> >>, perPage |-> <<>>],
    [search |-> <<>>, page |-> <<>>, perPage |-> << <<"-","1">> >>] }

\* What the handler computes from the parameters of one request before its
\* first await: whether new RegExp(search, 'i') throws, and if it does not,
\* the query object and the arguments of skip() and limit().
TransactionCall(q) ==
    LET text == IF q.search = <<>> THEN <<>> ELSE q.search[1] IN
    [search |-> text, page |-> q.page, perPage |-> q.perPage,
     throws |-> RegExpThrows(text),
     query |-> IF RegExpThrows(text) THEN BuildQuery(<<>>) ELSE BuildQuery(text),
     skip |-> SkipOf(q.page, q.perPage),
     limit |-> PerPageOf(q.perPage)]

TransactionCalls == { TransactionCall(q) : q \in TransactionQueries }

\* ------------------------------------------------------------ the state

NoRange == [startDate |-> InvalidDate, endDate |-> InvalidDate]

\* The reader slot with no request in it.
RdIdle ==
    [kind |-> "none", pc |-> "idle", param |-> <<>>, month |-> <<>>,
     search |-> <<>>, page |-> <<>>, perPage |-> <<>>,
     query |-> BuildQuery(<<>>), skip |-> Num(0), limit |-> Num(0),
     range |-> NoRange,
     soldItems |-> 0, totalSales |-> <<>>, statistics |-> <<>>,
     barChart |-> <<>>, transactions |-> <<>>,
     seen |-> <<>>, startLen |-> 0, fault |-> FALSE,
     status |-> 0, message |-> "", hasError |-> FALSE, data |-> <<>>]

\* The /initialize slot with no request in it.
SdIdle ==
    [pc |-> "idle", docs |-> <<>>, idx |-> 0,
     status |-> 0, message |-> "", hasError |-> FALSE]

\* The /initialize requests that can be in flight together.
Seeders == {1, 2}

Init ==
    /\ server = "connecting"
    /\ \E sc \in Scenarios : year = sc.year /\ source = sc.source
    /\ store = <<>>
    /\ rd = RdIdle
    /\ sd = [i \in Seeders |-> SdIdle]
    /\ okInits = 0
    /\ partial = 0

\* A request entering a route handler.
NewRequest(kind) == [RdIdle EXCEPT !.kind = kind, !.startLen = Len(store)]

\* The handler's locals go out of scope when it ends.
Finished(r) ==
    [r EXCEPT !.pc = "done", !.range = NoRange, !.soldItems = 0,
              !.totalSales = <<>>, !.statistics = <<>>, !.barChart = <<>>,
              !.transactions = <<>>]

\* res.status(status).json({ message }) / res.json(data)
Respond(r, status, message, data) ==
    [Finished(r) EXCEPT !.status = status, !.message = message, !.data = data]

\* The catch block: res.status(500).json({ message, error: error.message })
RespondError(r, message, faulted) ==
    [Finished(r) EXCEPT !.status = 500, !.message = message,
                        !.hasError = TRUE, !.fault = faulted]

\* An operation sent to the store: the store's length is what it can see.
Touch(r) == [r EXCEPT !.seen = Append(r.seen, Len(store))]

\* --------------------------------------------------- server.js: startup

\* mongoose.connect(...) resolves.
ConnectResolve ==
    /\ server = "connecting"
    /\ server' = "connected"
    /\ UNCHANGED <<year, source, store, rd, sd, okInits, partial>>

\* mongoose.connect(...) rejects: .catch logs the error, nothing else runs.
ConnectReject ==
    /\ server = "connecting"
    /\ server' = "failed"
    /\ UNCHANGED <<year, source, store, rd, sd, okInits, partial>>

\* app.listen called without waiting for the connect to resolve.
ListenEnabledEager == server \in {"connecting", "connected"}

\* When the .then callback (app.listen) runs.
ListenEnabled == server = "connected"

\* .then(() => app.listen(PORT, ...))
Listen ==
    /\ ListenEnabled
    /\ server' = "listening"
    /\ UNCHANGED <<year, source, store, rd, sd, okInits, partial>>

\* A request is dispatched to a route only by a listening server.
Accepting == server = "listening"

ReaderFrame == UNCHANGED <<server, year, source, store, sd, okInits, partial>>

\* ------------------------------------------------------------- GET /

HomeRequest ==
    /\ Accepting /\ rd.pc = "idle"
    /\ rd' = Respond(NewRequest("home"), 200, "Homepage", <<>>)
    /\ ReaderFrame

\* The client has its answer (or gives up on a request never answered).
RequestComplete ==
    /\ rd.pc = "done"
    /\ rd' = RdIdle
    /\ ReaderFrame

\* ------------------------------------------------ GET /statistics/:month

StatisticsRequest ==
    /\ Accepting /\ rd.pc = "idle"
    /\ \E p \in MonthParams :
        LET month == toLowerCase(p)
            r0 == [NewRequest("statistics") EXCEPT !.param = p, !.month = month]
        IN  rd' = IF MonthRejected(month)
                  THEN Respond(r0, 400, "Invalid month", <<>>)
                  ELSE [r0 EXCEPT !.range = getStartEndDate(month, year),
                                  !.pc = "stat_sold"]
    /\ ReaderFrame

\* const soldItems = await Transaction.countDocuments({ $gte, $lte })
StatisticsCountSold ==
    /\ rd.pc = "stat_sold"
    /\ \E ok \in BOOLEAN :
        rd' = IF RangeCastFails(rd.range)
              THEN RespondError(rd, "Failed to retrieve statistics", FALSE)
              ELSE IF ~ok
              THEN RespondError(Touch(rd), "Failed to retrieve statistics", TRUE)
              ELSE [Touch(rd) EXCEPT !.soldItems = CountSold(store, rd.range),
                                     !.pc = "stat_total"]
    /\ ReaderFrame

\* const totalSales = await Transaction.aggregate([...])
StatisticsAggregate ==
    /\ rd.pc = "stat_total"
    /\ \E ok \in BOOLEAN :
        rd' = IF ~ok
              THEN RespondError(Touch(rd), "Failed to retrieve statistics", TRUE)
              ELSE [Touch(rd) EXCEPT !.totalSales = AggregateTotal(store, rd.range),
                                     !.pc = "stat_before"]
    /\ ReaderFrame

\* const notSoldItems = await Transaction.countDocuments({ $lt }); res.json
StatisticsCountBefore ==
    /\ rd.pc = "stat_before"
    /\ \E ok \in BOOLEAN :
        rd' = IF BeforeCastFails(rd.range)
              THEN RespondError(rd, "Failed to retrieve statistics", FALSE)
              ELSE IF ~ok
              THEN RespondError(Touch(rd), "Failed to retrieve statistics", TRUE)
              ELSE Respond(Touch(rd), 200, "",
                     <<[totalSales |-> TotalOrZero(rd.totalSales),
                        soldItems |-> rd.soldItems,
                        notSoldItems |-> CountBefore(store, rd.range)]>>)
    /\ ReaderFrame

\* ------------------------------------------------- GET /bar-chart/:month

BarChartRequest ==
    /\ Accepting /\ rd.pc = "idle"
    /\ \E p \in MonthParams :
        LET month == toLowerCase(p)
            r0 == [NewRequest("bar-chart") EXCEPT !.param = p, !.month = month]
        IN  rd' = IF MonthRejected(month)
                  THEN Respond(r0, 400, "Invalid month", <<>>)
                  ELSE [r0 EXCEPT !.range = getStartEndDate(month, year),
                                  !.barChart = EmptyPriceRanges,
                                  !.pc = "bar_find"]
    /\ ReaderFrame

\* const transactions = await Transaction.find(...); forEach; res.json
BarChartFind ==
    /\ rd.pc = "bar_find"
    /\ \E ok \in BOOLEAN :
        rd' = IF RangeCastFails(rd.range)
              THEN RespondError(rd, "Failed to retrieve bar chart data", FALSE)
              ELSE IF ~ok
              THEN RespondError(Touch(rd), "Failed to retrieve bar chart data", TRUE)
              ELSE Respond(Touch(rd), 200, "",
                     <<BarChartTally(FindInRange(store, rd.range), rd.barChart)>>)
    /\ ReaderFrame

\* ------------------------------------------------- GET /pie-chart/:month

PieChartRequest ==
    /\ Accepting /\ rd.pc = "idle"
    /\ \E p \in MonthParams :
        LET month == toLowerCase(p)
            r0 == [NewRequest("pie-chart") EXCEPT !.param = p, !.month = month]
        IN  rd' = IF MonthRejected(month)
                  THEN Respond(r0, 400, "Invalid month", <<>>)
                  ELSE [r0 EXCEPT !.range = getStartEndDate(month, year),
                                  !.pc = "pie_group"]
    /\ ReaderFrame

\* const categories = await Transaction.aggregate([...]); res.json
PieChartAggregate ==
    /\ rd.pc = "pie_group"
    /\ \E ok \in BOOLEAN :
        rd' = IF ~ok
              THEN RespondError(Touch(rd), "Failed to retrieve pie chart data", TRUE)
              ELSE Respond(Touch(rd), 200, "",
                     <<AggregateCategories(store, rd.range)>>)
    /\ ReaderFrame

\* -------------------------------------------------- GET /combined/:month

CombinedRequest ==
    /\ Accepting /\ rd.pc = "idle"
    /\ \E p \in MonthParams :
        LET month == toLowerCase(p)
            r0 == [NewRequest("combined") EXCEPT !.param = p, !.month = month]
        IN  rd' = IF MonthRejected(month)
                  THEN Respond(r0, 400, "Invalid month", <<>>)
                  ELSE [r0 EXCEPT !.pc = "c_sold"]
    /\ ReaderFrame

\* getStatistics: const soldItems = await Transaction.countDocuments(...)
GetStatisticsCountSold ==
    /\ rd.pc = "c_sold"
    /\ \E ok \in BOOLEAN :
        LET range == getStartEndDate(rd.month, year) IN
        rd' = IF RangeCastFails(range)
              THEN RespondError(rd, "Failed to retrieve combined data", FALSE)
              ELSE IF ~ok
              THEN RespondError(Touch(rd), "Failed to retrieve combined data", TRUE)
              ELSE [Touch(rd) EXCEPT !.soldItems = CountSold(store, range),
                                     !.pc = "c_total"]
    /\ ReaderFrame

\* getStatistics: const totalSales = await Transaction.aggregate([...])
GetStatisticsAggregate ==
    /\ rd.pc = "c_total"
    /\ \E ok \in BOOLEAN :
        LET range == getStartEndDate(rd.month, year) IN
        rd' = IF ~ok
              THEN RespondError(Touch(rd), "Failed to retrieve combined data", TRUE)
              ELSE [Touch(rd) EXCEPT !.totalSales = AggregateTotal(store, range),
                                     !.pc = "c_before"]
    /\ ReaderFrame

\* getStatistics: const notSoldItems = await ...; return { ... }
GetStatisticsCountBefore ==
    /\ rd.pc = "c_before"
    /\ \E ok \in BOOLEAN :
        LET range == getStartEndDate(rd.month, year) IN
        rd' = IF BeforeCastFails(range)
              THEN RespondError(rd, "Failed to retrieve combined data", FALSE)
              ELSE IF ~ok
              THEN RespondError(Touch(rd), "Failed to retrieve combined data", TRUE)
              ELSE [Touch(rd) EXCEPT
                      !.statistics =
                         <<[totalSales |-> TotalOrZero(rd.totalSales),
                            soldItems |-> rd.soldItems,
                            notSoldItems |-> CountBefore(store, range)]>>,
                      !.soldItems = 0, !.totalSales = <<>>,
                      !.pc = "c_bar"]
    /\ ReaderFrame

\* getBarChart: const transactions = await Transaction.find(...); forEach
GetBarChartFind ==
    /\ rd.pc = "c_bar"
    /\ \E ok \in BOOLEAN :
        LET range == getStartEndDate(rd.month, year) IN
        rd' = IF RangeCastFails(range)
              THEN RespondError(rd, "Failed to retrieve combined data", FALSE)
              ELSE IF ~ok
              THEN RespondError(Touch(rd), "Failed to retrieve combined data", TRUE)
              ELSE [Touch(rd) EXCEPT
                      !.barChart = GetBarChartTally(FindInRange(store, range),
                                                    EmptyPriceRanges),
                      !.pc = "c_pie"]
    /\ ReaderFrame

\* getPieChart: return await Transaction.aggregate([...]); then res.json
GetPieChartAggregate ==
    /\ rd.pc = "c_pie"
    /\ \E ok \in BOOLEAN :
        LET range == getStartEndDate(rd.month, year) IN
        rd' = IF ~ok
              THEN RespondError(Touch(rd), "Failed to retrieve combined data", TRUE)
              ELSE Respond(Touch(rd), 200, "",
                     <<[statistics |-> rd.statistics[1],
                        barChart |-> rd.barChart,
                        pieChart |-> AggregateCategories(store, range)]>>)
    /\ ReaderFrame

\* ----------------------------------------------------- GET /transactions

\* An exception thrown outside the handler's try block rejects the async
\* handler's promise, and nothing in the router handles the rejection. What
\* follows depends on the runtime and the framework the service is run with:
\*   "exit"      the unhandled rejection ends the process: no response, and
\*               every request in flight is lost with it;
\*   "ignored"   the rejection is only reported: no response is ever sent;
\*   "framework" the framework's default error handler answers 500, which is
\*               not the handler's { message, error }.
UnhandledOutcomes == {"exit", "ignored", "framework"}

\* The request whose handler threw.
Unhandled(r, outcome) ==
    IF outcome = "framework"
    THEN [Finished(r) EXCEPT !.status = 500, !.message = "Internal Server Error"]
    ELSE Finished(r)

\* An /initialize request when the process ends: a handler waiting for its
\* fetch is gone; an insertMany already sent goes on in the store, with
\* nobody left to answer.
Orphaned(q) ==
    IF q.pc = "fetch" THEN [SdIdle EXCEPT !.pc = "done"]
    ELSE IF q.pc = "insert" THEN [q EXCEPT !.pc = "orphan"]
    ELSE q

ServerAfter(outcome) == IF outcome = "exit" THEN "exited" ELSE server

SeedersAfter(outcome) ==
    IF outcome = "exit" THEN [i \in Seeders |-> Orphaned(sd[i])] ELSE sd

TransactionsRequest ==
    /\ Accepting /\ rd.pc = "idle"
    /\ \E c \in TransactionCalls, outcome \in UnhandledOutcomes :
        LET r0 == [NewRequest("transactions") EXCEPT
                     !.search = c.search, !.page = c.page, !.perPage = c.perPage]
        IN  IF c.throws
            THEN /\ rd' = Unhandled(r0, outcome)
                 /\ server' = ServerAfter(outcome)
                 /\ sd' = SeedersAfter(outcome)
            ELSE /\ rd' = [r0 EXCEPT !.query = c.query, !.skip = c.skip,
                                     !.limit = c.limit, !.pc = "tx_find"]
                 /\ UNCHANGED <<server, sd>>
    /\ UNCHANGED <<year, source, store, okInits, partial>>

\* Another client's /transactions request throws the same way while the
\* request followed here is in flight, and the process ends: this request
\* is never answered.
OtherRequestThrows ==
    /\ Accepting /\ rd.pc \notin {"idle", "done"}
    /\ rd' = Finished(rd)
    /\ server' = ServerAfter("exit")
    /\ sd' = SeedersAfter("exit")
    /\ UNCHANGED <<year, source, store, okInits, partial>>

\* const transactions = await Transaction.find(query).skip(...).limit(...)
TransactionsFind ==
    /\ rd.pc = "tx_find"
    /\ \E ok \in BOOLEAN :
        rd' = IF QueryCastFails(rd.query) \/ PagingFails(rd.skip, rd.limit)
              THEN RespondError(rd, "Failed to retrieve transactions", FALSE)
              ELSE IF ~ok
              THEN RespondError(Touch(rd), "Failed to retrieve transactions", TRUE)
              ELSE [Touch(rd) EXCEPT
                      !.transactions =
                          FindPage(store, rd.query, IntegerValue(rd.skip),
                                   IntegerValue(rd.limit)),
                      !.pc = "tx_count"]
    /\ ReaderFrame

\* const total = await Transaction.countDocuments(query); res.json
TransactionsCount ==
    /\ rd.pc = "tx_count"
    /\ \E ok \in BOOLEAN :
        rd' = IF ~ok
              THEN RespondError(Touch(rd), "Failed to retrieve transactions", TRUE)
              ELSE Respond(Touch(rd), 200, "",
                     <<[transactions |-> rd.transactions,
                        total |-> CountMatches(store, rd.query)]>>)
    /\ ReaderFrame

\* ------------------------------------------------------- GET /initialize

SeederFrame == UNCHANGED <<server, year, source, rd>>

\* Documents that requests in flight may still write.
RECURSIVE PendingWrites(_)
PendingWrites(S) ==
    IF S = {} THEN 0
    ELSE LET i == CHOOSE j \in S : TRUE
             n == IF sd[i].pc = "fetch" THEN Len(source)
                  ELSE IF sd[i].pc \in {"insert", "orphan"}
                       THEN Len(sd[i].docs) - sd[i].idx
                       ELSE 0
         IN  n + PendingWrites(S \ {i})

\* The handler starts: axios.get(...) is awaited. Nothing keeps a second
\* request from starting while the first is in flight. (Requests take the
\* lowest free slot: which slot a request sits in means nothing.)
InitializeRequest(i) ==
    /\ Accepting /\ sd[i].pc = "idle"
    /\ \A j \in Seeders : j < i => sd[j].pc # "idle"
    /\ Len(store) + PendingWrites(Seeders) + Len(source) <= MaxStore
    /\ sd' = [sd EXCEPT ![i] = [SdIdle EXCEPT !.pc = "fetch"]]
    /\ UNCHANGED <<store, okInits, partial>>
    /\ SeederFrame

SeedError(r) ==
    [SdIdle EXCEPT !.pc = "done", !.status = 500,
                   !.message = "Failed to initialize database", !.hasError = TRUE]

\* await axios.get(...) settles. Resolved, response.data is mapped and
\* insertMany is called and awaited: nothing is answered yet. Rejected, the
\* catch block answers 500.
FetchSettle(i) ==
    /\ server = "listening" /\ sd[i].pc = "fetch"
    /\ \E ok \in BOOLEAN :
        LET transactions == [k \in 1..Len(source) |-> MapItem(source[k])] IN
        sd' = [sd EXCEPT ![i] =
                 IF ok
                 THEN [sd[i] EXCEPT !.pc = "insert", !.docs = transactions,
                                    !.idx = 0]
                 ELSE SeedError(sd[i])]
    /\ UNCHANGED <<store, okInits, partial>>
    /\ SeederFrame

\* insertMany validates the batch before it writes any document: with a
\* document that fails it rejects, and the catch block answers 500. An
\* orphaned insertMany has nobody to answer.
InsertManyReject(i) ==
    /\ sd[i].pc \in {"insert", "orphan"} /\ sd[i].idx = 0
    /\ ValidationFails(sd[i].docs)
    /\ sd' = [sd EXCEPT ![i] = IF sd[i].pc = "insert"
                               THEN SeedError(sd[i])
                               ELSE [SdIdle EXCEPT !.pc = "done"]]
    /\ UNCHANGED <<store, okInits, partial>>
    /\ SeederFrame

\* An insert that first clears the collection.
InsertIntoCleared(s, doc) == <<transactionSchema(doc)>>

\* The store after insertMany has written one more document of the batch.
InsertInto(s, doc) == Append(s, transactionSchema(doc))

\* insertMany writes the next document, or the store fails: the documents
\* already written stay. An orphaned insertMany has nobody to answer.
InsertDocument(i) ==
    /\ sd[i].pc \in {"insert", "orphan"} /\ sd[i].idx < Len(sd[i].docs)
    /\ ~ValidationFails(sd[i].docs)
    /\ \E ok \in BOOLEAN :
        IF ok
        THEN /\ store' = InsertInto(store, sd[i].docs[sd[i].idx + 1])
             /\ sd' = [sd EXCEPT ![i].idx = sd[i].idx + 1]
             /\ partial' = partial
        ELSE /\ store' = store
             /\ sd' = [sd EXCEPT ![i] = IF sd[i].pc = "insert"
                                        THEN SeedError(sd[i])
                                        ELSE [SdIdle EXCEPT !.pc = "done"]]
             /\ partial' = partial + sd[i].idx
    /\ UNCHANGED okInits
    /\ SeederFrame

\* insertMany resolves: res.status(200).json({ message })
InsertManyResolve(i) ==
    /\ sd[i].pc = "insert" /\ sd[i].idx = Len(sd[i].docs)
    /\ sd' = [sd EXCEPT ![i] =
                [SdIdle EXCEPT !.pc = "done", !.status = 200,
                               !.message = "Database initialized successfully"]]
    /\ okInits' = okInits + 1
    /\ UNCHANGED <<store, partial>>
    /\ SeederFrame

\* An orphaned insertMany has written its last document.
InsertManyOrphaned(i) ==
    /\ sd[i].pc = "orphan" /\ sd[i].idx = Len(sd[i].docs)
    /\ sd' = [sd EXCEPT ![i] = [SdIdle EXCEPT !.pc = "done"]]
    /\ partial' = partial + sd[i].idx
    /\ UNCHANGED <<store, okInits>>
    /\ SeederFrame

InitializeComplete(i) ==
    /\ sd[i].pc = "done"
    /\ sd' = [sd EXCEPT ![i] = SdIdle]
    /\ UNCHANGED <<store, okInits, partial>>
    /\ SeederFrame

\* ------------------------------------------------------ specification

Next ==
    \/ ConnectResolve \/ ConnectReject \/ Listen
    \/ HomeRequest \/ RequestComplete
    \/ StatisticsRequest \/ StatisticsCountSold \/ StatisticsAggregate
    \/ StatisticsCountBefore
    \/ BarChartRequest \/ BarChartFind
    \/ PieChartRequest \/ PieChartAggregate
    \/ CombinedRequest \/ GetStatisticsCountSold \/ GetStatisticsAggregate
    \/ GetStatisticsCountBefore \/ GetBarChartFind \/ GetPieChartAggregate
    \/ TransactionsRequest \/ TransactionsFind \/ TransactionsCount
    \/ OtherRequestThrows
    \/ \E i \in Seeders :
          \/ InitializeRequest(i) \/ FetchSettle(i) \/ InsertManyReject(i)
          \/ InsertDocument(i) \/ InsertManyResolve(i) \/ InsertManyOrphaned(i)
          \/ InitializeComplete(i)

Spec == Init /\ [][Next]_vars

\* =====================================================================
\* Properties. The definitions below state what is checked of the model;
\* they restate counts and sums over index sets, apart from the folds the
\* handlers use.
\* =====================================================================

MonthKinds == {"statistics", "bar-chart", "pie-chart", "combined"}

IsMonthName(s) == \E i \in 1..12 : MonthNames[i] = s

\* The store as the request found it, and whether it stayed that way for
\* every operation the request sent.
StoreAtStart == SubSeq(store, 1, rd.startLen)

StoreUnchanged == \A k \in 1..Len(rd.seen) : rd.seen[k] = rd.startLen

Prefix(n) == SubSeq(store, 1, n)

\* Indexes of the records of s dated within [startDate, endDate] / before
\* startDate.
SoldIdx(s, range) ==
    { i \in 1..Len(s) : /\ range.startDate.t <= s[i].dateOfSale
                        /\ s[i].dateOfSale <= range.endDate.t }

BeforeIdx(s, range) == { i \in 1..Len(s) : s[i].dateOfSale < range.startDate.t }

RECURSIVE PriceSum(_, _)
PriceSum(s, idx) ==
    IF idx = {} THEN 0
    ELSE LET i == CHOOSE j \in idx : TRUE IN
         (IF s[i].price = <<>> THEN 0 ELSE s[i].price[1]) + PriceSum(s, idx \ {i})

\* t is an hour of a calendar day of month m (0..11) of year y.
OnCalendarDayOf(t, y, m) ==
    \E d \in 1..DaysInMonth(y, m), h \in 0..23 :
        t = (DaysBeforeYear(y) + DaysBeforeMonth(y, m) + d - 1) * 24 + h

MonthIndexOf(s) == (CHOOSE i \in 1..12 : MonthNames[i] = s) - 1

\* ------------------------------------------------------------------ C1
\* C1 (as claimed): a month-scoped request naming one of the twelve months,
\* in any letter case, is not answered 400 'Invalid month', and the range it
\* queries holds a record exactly when the record's dateOfSale is on a
\* calendar day of that month of the current year.
C1_MonthAcceptedAndExact ==
    (rd.kind \in MonthKinds /\ IsMonthName(toLowerCase(rd.param))) =>
        /\ rd.status # 400
        /\ rd.pc \in {"stat_sold", "stat_total", "stat_before", "bar_find", "pie_group"} =>
             \A i \in 1..Len(store) :
                MatchRange(store[i], rd.range) <=>
                   OnCalendarDayOf(store[i].dateOfSale, year,
                                   MonthIndexOf(toLowerCase(rd.param)))

\* ------------------------------------------------------------------ C2
\* C2 (as claimed): a month-scoped request whose lower-cased month is not
\* one of the twelve names is answered 400 'Invalid month' and sends no
\* operation to the store.
C2_UnknownMonthRejected ==
    (rd.kind \in MonthKinds /\ ~IsMonthName(toLowerCase(rd.param))) =>
        /\ rd.seen = <<>>
        /\ rd.pc = "done" => (rd.status = 400 /\ rd.message = "Invalid month")

\* ------------------------------------------------------------------ C3

\* The bucket the claim assigns to a price: the first whose upper bound
\* (100, 200, ..., 900) is >= the price, the tenth above 900.
FirstBucketAtLeast(p) ==
    IF \E k \in 1..9 : p <= 100 * k
    THEN CHOOSE k \in 1..9 : p <= 100 * k /\ \A j \in 1..(k - 1) : p > 100 * j
    ELSE 10

\* The bar chart of a finished request and the store length its find saw.
BarAnswer == IF rd.kind = "combined" THEN rd.data[1].barChart ELSE rd.data[1]

BarSeenLen == IF rd.kind = "combined" THEN rd.seen[4] ELSE rd.seen[1]

RECURSIVE SeqSum(_)
SeqSum(q) == IF q = <<>> THEN 0 ELSE Head(q) + SeqSum(Tail(q))

\* C3: a bar chart answered 200 is the ten ranges '0-100' .. '901-above' in
\* that order; every record in [startDate, endDate] with a price is counted
\* in the first bucket whose upper bound is >= its price (the last above
\* 900); and the ten counts sum to the number of records in the range.
C3_BarChartBuckets ==
    (rd.pc = "done" /\ rd.status = 200 /\ rd.kind \in {"bar-chart", "combined"}) =>
        LET s == Prefix(BarSeenLen)
            in == SoldIdx(s, getStartEndDate(rd.month, year))
            bars == BarAnswer
        IN  /\ [i \in 1..Len(bars) |-> bars[i].range] =
                  <<"0-100", "101-200", "201-300", "301-400", "401-500",
                    "501-600", "601-700", "701-800", "801-900", "901-above">>
            /\ \A b \in 1..10 :
                  bars[b].count >=
                     Cardinality({ i \in in : /\ s[i].price # <<>>
                                                /\ FirstBucketAtLeast(s[i].price[1]) = b })
            /\ SeqSum([i \in 1..Len(bars) |-> bars[i].count]) = Cardinality(in)

\* A February bar chart that counted a price of 100 in '0-100' and a price of
\* 101 in '101-200'.
C3_Witness ==
    /\ rd.pc = "done" /\ rd.status = 200 /\ rd.kind = "bar-chart"
    /\ rd.data[1][1].count = 1 /\ rd.data[1][2].count = 1
    /\ \E i \in 1..rd.seen[1] : store[i].price = <<100>>
    /\ \E i \in 1..rd.seen[1] : store[i].price = <<101>>

\* ------------------------------------------------------------------ C4
\* C4: when the store did not change during a statistics request answered
\* 200, soldItems is the number of records with startDate <= dateOfSale <=
\* endDate, totalSales the sum of price over those records (0 when none),
\* and notSoldItems the number of records dated before startDate.
C4_StatisticsValues ==
    (rd.pc = "done" /\ rd.status = 200 /\ rd.kind = "statistics" /\ StoreUnchanged) =>
        LET s == StoreAtStart
            range == getStartEndDate(rd.month, year)
        IN  /\ rd.data[1].soldItems = Cardinality(SoldIdx(s, range))
            /\ rd.data[1].totalSales = PriceSum(s, SoldIdx(s, range))
            /\ rd.data[1].notSoldItems = Cardinality(BeforeIdx(s, range))

\* A statistics answer over an unchanged store with records in the month
\* and records before it.
C4_Witness ==
    /\ rd.pc = "done" /\ rd.status = 200 /\ rd.kind = "statistics" /\ StoreUnchanged
    /\ rd.data[1].soldItems >= 1
    /\ rd.data[1].totalSales > 0
    /\ rd.data[1].notSoldItems >= 1

\* ------------------------------------------------------------------ C5
\* C5 (as claimed): /transactions with the defaults (page 1, perPage 10,
\* search "") over an unchanged store returns at most 10 records and a total
\* equal to the number of all records of the store.
C5_DefaultListCountsAll ==
    (/\ rd.pc = "done" /\ rd.status = 200 /\ rd.kind = "transactions"
     /\ rd.search = <<>> /\ rd.page = <<>> /\ rd.perPage = <<>>
     /\ StoreUnchanged) =>
        /\ Len(rd.data[1].transactions) <= 10
        /\ rd.data[1].total = rd.startLen

\* ------------------------------------------------------------------ C6

\* What the three month routes answer over a store s that does not change
\* and does not fail while they run.
StatisticsRouteAnswer(s, month) ==
    LET range == getStartEndDate(month, year) IN
    IF MonthRejected(month) THEN [status |-> 400, data |-> <<>>]
    ELSE IF RangeCastFails(range) THEN [status |-> 500, data |-> <<>>]
    ELSE [status |-> 200,
          data |-> <<[totalSales |-> TotalOrZero(AggregateTotal(s, range)),
                      soldItems |-> CountSold(s, range),
                      notSoldItems |-> CountBefore(s, range)]>>]

BarChartRouteAnswer(s, month) ==
    LET range == getStartEndDate(month, year) IN
    IF MonthRejected(month) THEN [status |-> 400, data |-> <<>>]
    ELSE IF RangeCastFails(range) THEN [status |-> 500, data |-> <<>>]
    ELSE [status |-> 200,
          data |-> <<BarChartTally(FindInRange(s, range), EmptyPriceRanges)>>]

PieChartRouteAnswer(s, month) ==
    LET range == getStartEndDate(month, year) IN
    IF MonthRejected(month) THEN [status |-> 400, data |-> <<>>]
    ELSE [status |-> 200, data |-> <<AggregateCategories(s, range)>>]

\* The route handlers, run step by step over an unchanged store with no
\* store failure, give these answers.
RouteAnswersAgree ==
    (rd.pc = "done" /\ ~rd.fault /\ StoreUnchanged) =>
        /\ rd.kind = "statistics" =>
             [status |-> rd.status, data |-> rd.data] =
                 StatisticsRouteAnswer(StoreAtStart, rd.month)
        /\ rd.kind = "bar-chart" =>
             [status |-> rd.status, data |-> rd.data] =
                 BarChartRouteAnswer(StoreAtStart, rd.month)
        /\ rd.kind = "pie-chart" =>
             [status |-> rd.status, data |-> rd.data] =
                 PieChartRouteAnswer(StoreAtStart, rd.month)

\* C6 (as claimed): over an unchanged store, for any month parameter, the
\* combined answer is the same 400 as the three routes' when they reject
\* the month, and otherwise a 200 whose statistics, barChart and pieChart
\* equal the three routes' answers.
C6_CombinedEqualsSeparate ==
    (rd.pc = "done" /\ rd.kind = "combined" /\ ~rd.fault /\ StoreUnchanged) =>
        LET st == StatisticsRouteAnswer(StoreAtStart, rd.month)
            bar == BarChartRouteAnswer(StoreAtStart, rd.month)
            pie == PieChartRouteAnswer(StoreAtStart, rd.month)
        IN  IF st.status = 400 \/ bar.status = 400 \/ pie.status = 400
            THEN /\ rd.status = 400
                 /\ st.status = 400 /\ bar.status = 400 /\ pie.status = 400
            ELSE /\ rd.status = 200
                 /\ st.status = 200 /\ bar.status = 200 /\ pie.status = 200
                 /\ rd.data[1].statistics = st.data[1]
                 /\ rd.data[1].barChart = bar.data[1]
                 /\ rd.data[1].pieChart = pie.data[1]

\* ------------------------------------------------------------------ C7
\* C7 (as claimed): a request whose handler has finished has been answered,
\* and an answer of 500 carries { message, error }.
C7_EveryRequestAnswered ==
    /\ rd.pc = "done" => (rd.status # 0 /\ (rd.status = 500 => rd.hasError))
    /\ \A i \in Seeders :
          sd[i].pc = "done" =>
             (sd[i].status # 0 /\ (sd[i].status = 500 => sd[i].hasError))

\* ------------------------------------------------------------------ C8
\* C8: the server starts listening only from a resolved connect, a failed
\* connect is never followed by listening, and a request is only ever
\* taken up by a listening server.
C8_ListenOnlyAfterConnect ==
    /\ [][(server' = "listening" /\ server # "listening") => server = "connected"]_vars
    /\ [][server = "failed" => server' = "failed"]_vars
    /\ [][(\/ rd.pc = "idle" /\ rd'.pc # "idle"
           \/ \E i \in Seeders : sd[i].pc = "idle" /\ sd'[i].pc # "idle")
          => server = "listening"]_vars

\* The server listens and has answered a request.
C8_Witness == server = "listening" /\ rd.pc = "done" /\ rd.status = 200

\* ------------------------------------------------------------------ C9

IsPrefix(a, b) == Len(a) <= Len(b) /\ SubSeq(b, 1, Len(a)) = a

\* The records of the fetched array as /initialize stores them.
StoredSource == [i \in 1..Len(source) |-> transactionSchema(MapItem(source[i]))]

\* Number of records of s equal to rec.
Copies(s, rec) == Cardinality({ i \in 1..Len(s) : s[i] = rec })

\* Documents written so far by the insertMany calls still running.
RECURSIVE WrittenInFlight(_)
WrittenInFlight(S) ==
    IF S = {} THEN 0
    ELSE LET i == CHOOSE j \in S : TRUE IN
         (IF sd[i].pc \in {"insert", "orphan"} THEN sd[i].idx ELSE 0)
         + WrittenInFlight(S \ {i})

\* C9: every step keeps the records already stored, in place and unchanged;
\* only the insert of an /initialize changes the store, by appending one
\* record of the fetched array; a reader's step leaves the store as it was;
\* an /initialize whose fetch fails answers 500 and leaves the store as it
\* was; and k calls answered 200 on a source of n items have added k*n
\* records, k copies of each item (beside what failed calls left behind and
\* what running calls have written so far).
C9_StoreOnlyGrows ==
    /\ [][ /\ IsPrefix(store, store')
           /\ store' # store =>
                 /\ \E i \in Seeders : sd[i].pc \in {"insert", "orphan"}
                 /\ rd' = rd
                 /\ Len(store') = Len(store) + 1
                 /\ \E k \in 1..Len(source) : store'[Len(store')] = StoredSource[k]
           /\ rd' # rd => store' = store
           /\ \A i \in Seeders :
                 (sd[i].pc = "fetch" /\ sd'[i].pc = "done" /\ server' = "listening") =>
                     (sd'[i].status = 500 /\ sd'[i].hasError /\ store' = store) ]_vars
    /\ [](/\ Len(store) = okInits * Len(source) + partial + WrittenInFlight(Seeders)
          /\ LET stored == StoredSource IN
             \A k \in 1..Len(stored) :
                Copies(store, stored[k]) >= okInits * Copies(stored, stored[k]))

\* Two /initialize calls answered 200 whose inserts interleaved, on a source
\* of two items: four records, two copies of each item.
C9_Witness ==
    /\ okInits = 2 /\ partial = 0 /\ Len(store) = 4
    /\ \A i \in Seeders : sd[i].pc = "done" /\ sd[i].status = 200
    /\ store[1] = store[2] /\ store[3] = store[4] /\ store[1] # store[3]

\* ----------------------------------------------------------------- C10

\* The statistics of a finished request.
StatsAnswer == IF rd.kind = "combined" THEN rd.data[1].statistics ELSE rd.data[1]

\* The store lengths that existed during the request: /initialize writes
\* one document at a time, so every length between the first and the last.
LensDuring == rd.startLen..rd.seen[Len(rd.seen)]

PageOver(s, query, skipArg, limitArg) ==
    LET idx == { i \in 1..Len(s) : QueryMatches(s[i], query) }
        skip == IntegerValue(skipArg)
        limit == Abs(IntegerValue(limitArg))
    IN  \* the matching records numbered skip+1 .. skip+limit, in store order
        { i \in idx : /\ Cardinality({ j \in idx : j < i }) >= skip
                      /\ limit # 0 => Cardinality({ j \in idx : j < i }) < skip + limit }

\* C10 (as claimed): the three values of one statistics answer are computed
\* over one store state that existed during the request, and the total of a
\* /transactions answer counts the store state its page was read from.
C10_OneSnapshot ==
    /\ (rd.pc = "done" /\ rd.status = 200 /\ rd.kind \in {"statistics", "combined"}) =>
          \E n \in LensDuring :
              LET s == Prefix(n)
                  range == getStartEndDate(rd.month, year)
              IN  /\ StatsAnswer.soldItems = Cardinality(SoldIdx(s, range))
                  /\ StatsAnswer.totalSales = PriceSum(s, SoldIdx(s, range))
                  /\ StatsAnswer.notSoldItems = Cardinality(BeforeIdx(s, range))
    /\ (rd.pc = "done" /\ rd.status = 200 /\ rd.kind = "transactions") =>
          \E n \in LensDuring :
              LET s == Prefix(n) IN
              /\ Len(rd.data[1].transactions) =
                    Cardinality(PageOver(s, rd.query, rd.skip, rd.limit))
              /\ rd.data[1].total =
                    Cardinality({ i \in 1..n : QueryMatches(s[i], rd.query) })

\* C10 (amended): each of soldItems, totalSales and notSoldItems is computed
\* over a store state that existed during the request, a later value over a
\* state no older than an earlier one's, and over the same state when the
\* store did not change between the reads; the total of /transactions counts
\* a store state no older than the one its page was read from.
C10_OrderedSnapshots ==
    /\ (rd.pc = "done" /\ rd.status = 200 /\ rd.kind \in {"statistics", "combined"}) =>
          \E n1 \in LensDuring, n2 \in LensDuring, n3 \in LensDuring :
              LET range == getStartEndDate(rd.month, year) IN
              /\ n1 <= n2 /\ n2 <= n3
              /\ StoreUnchanged => (n1 = n3)
              /\ StatsAnswer.soldItems = Cardinality(SoldIdx(Prefix(n1), range))
              /\ StatsAnswer.totalSales =
                    PriceSum(Prefix(n2), SoldIdx(Prefix(n2), range))
              /\ StatsAnswer.notSoldItems = Cardinality(BeforeIdx(Prefix(n3), range))
    /\ (rd.pc = "done" /\ rd.status = 200 /\ rd.kind = "transactions") =>
          \E n1 \in LensDuring, n2 \in LensDuring :
              /\ n1 <= n2
              /\ StoreUnchanged => (n1 = n2)
              /\ Len(rd.data[1].transactions) =
                    Cardinality(PageOver(Prefix(n1), rd.query, rd.skip, rd.limit))
              /\ \A k \in 1..Len(rd.data[1].transactions) :
                    \E i \in PageOver(Prefix(n1), rd.query, rd.skip, rd.limit) :
                        store[i] = rd.data[1].transactions[k]
              /\ rd.data[1].total =
                    Cardinality({ i \in 1..n2 : QueryMatches(store[i], rd.query) })

\* A statistics answer whose reads were separated by an insert: soldItems
\* saw fewer records than notSoldItems.
C10_Witness ==
    /\ rd.pc = "done" /\ rd.status = 200 /\ rd.kind = "statistics"
    /\ rd.seen[1] < rd.seen[3]
    /\ rd.data[1].soldItems = 0 /\ rd.data[1].totalSales > 0

====
